---------------------------- MODULE Spec2Model ----------------------------
(***************************************************************************)
(* NSX -> FortiOS address synchronisation (dcn-nsx-firewall-ssi).          *)
(*                                                                         *)
(* These state machines share this module:                                 *)
(*   Spec / SpecTwice  one reconciliation pass (two passes in a row) of    *)
(*                     one namespace against one firewall vdom:            *)
(*                     deployIPv4 / deployIPv6 of fortios.service.ts.      *)
(*                     The two functions are the same text over the        *)
(*                     address / address6 and addrgrp / addrgrp6 stores;   *)
(*                     the model is of either.                             *)
(*   SpecMerge         the pure merge functions of ssi.utils.ts applied    *)
(*                     to bounded fragments.                               *)
(*   SpecWork          SSIWorker.work: the loop over integrators,          *)
(*                     managers and firewall targets.                      *)
(*   SpecLinkLocal     removeLinkLocalAddresses of ssi.utils.ts applied    *)
(*                     to bounded lists of literals.                       *)
(*   SpecExtract       getVMTagsGroupsAndMembers and                       *)
(*                     getGroupTagsGroupsAndMembers of nsx.service.ts      *)
(*                     called for one manager.                             *)
(*   SpecRuns          getVMTagsGroupsAndMembers called in successive      *)
(*                     runs for the same manager.                          *)
(***************************************************************************)
EXTENDS Naturals, Sequences, FiniteSets, TLC

VARIABLES
  fortiOSAddresses,   \* desired addresses, Object.values order
  fortiOSGroups,      \* desired groups, Object.values order
  fwAddresses,        \* the firewall's address store of the vdom: name -> payload
  fwGroups,           \* the firewall's group store of the vdom: name -> member list
  fgAddresses,        \* snapshot fetched at the start of the pass (names)
  fgGroups,           \* snapshot fetched at the start of the pass: name -> member list
  pc,                 \* position of the pass
  i,                  \* index of the loop at pc
  r,                  \* index into removed while pc = "deleteAddresses"
  calls,              \* firewall mutations attempted in this pass, in order
  pass,               \* number of the pass being run
  prevOk,             \* every call of the previous pass succeeded
  \* mergeGroupObjects applied to two fragments, in both orders
  fragA, fragB,       \* two group fragments: name -> group record
  mergedAB,           \* A then B folded into an empty aggregate
  mergedBA,           \* B then A folded into an empty aggregate
  mpc,                \* position of the merge run
  \* SSIWorker.work
  running,           \* the worker's running flag
  invocations,        \* how each call of work() stands
  integrators,        \* the integrators listed for this run
  fortiOSIPv4Addresses, \* the aggregate of the current integrator: name -> subnet
  fortiOSIPv4Groups,  \* the aggregate of the current integrator: name -> group record
  wpc,                \* position of work()
  ii, mi, fi,         \* integrator, manager and fortigate endpoint being processed
  \* removeLinkLocalAddresses applied to a list
  addresses,          \* the list handed to the filter
  filtered,           \* what the call gave: a list, or an error thrown
  lpc,                \* position of the filter run
  \* the extractor of nsx.service.ts called for one manager
  exManager,          \* the manager queried
  exInput,            \* what NSX answered to the last call
  exResult,           \* what the last call gave: a fragment, or an error thrown
  exPc,               \* the extractor call that is next, or how the last one ended
  exRun,              \* number of the extraction run
  exNames             \* every (owner, literal, name) a VM address was stored under

reconVars == <<fortiOSAddresses, fortiOSGroups, fwAddresses, fwGroups,
               fgAddresses, fgGroups, pc, i, r, calls, pass, prevOk>>

mergeVars == <<fragA, fragB, mergedAB, mergedBA, mpc>>

workVars == <<running, invocations, integrators, fortiOSIPv4Addresses,
              fortiOSIPv4Groups, wpc, ii, mi, fi>>

linkLocalVars == <<addresses, filtered, lpc>>

extractVars == <<exManager, exInput, exResult, exPc, exRun, exNames>>

vars == <<reconVars, mergeVars, workVars, linkLocalVars, extractVars>>

-----------------------------------------------------------------------------
(* Bounds of the model *)

\* number of address names in play
NAddr == 2

\* number of passes run in a row under SpecTwice
MaxPasses == 2

AddrPool == <<"addr1", "addr2", "addr3", "addr4">>

AddrNames == {AddrPool[k] : k \in 1..NAddr}

GrpNames == {"grpA", "grpB"}

Range(s) == {s[k] : k \in 1..Len(s)}

\* the names of S as a list, in pool order
SeqOf(S) == SelectSeq(SubSeq(AddrPool, 1, NAddr), LAMBDA x : x \in S)

\* one desired address record (createIPv4Address / createIPv6Address give the payload)
AddressRecord(n) == [name |-> n, subnet |-> "want"]

-----------------------------------------------------------------------------
(* The firewall driver: every call resolves or rejects *)

Outcome == {TRUE, FALSE}

NoList == <<>>

Call(op, name, ok, member, add, rem) ==
  [op |-> op, name |-> name, ok |-> ok, member |-> member,
   added |-> add, removed |-> rem]

-----------------------------------------------------------------------------
(* deployIPv4 / deployIPv6 *)

\* mutant: every desired address is taken to be missing
missingAddressesAll == fortiOSAddresses

\* fgAddresses.some((fgAddress) => fgAddress.name === address.name)
missingAddresses ==
  SelectSeq(fortiOSAddresses, LAMBDA a : a.name \notin fgAddresses)

\* mutant: every desired group is taken to be missing
missingGroupsAll == fortiOSGroups

missingGroups ==
  SelectSeq(fortiOSGroups, LAMBDA g : g.name \notin DOMAIN fgGroups)

\* members only present in NSX
added(group, existingGroup) ==
  SelectSeq(group.member, LAMBDA m : m \notin Range(existingGroup))

\* mutant: the filter runs over the wrong list
removedSwapped(group, existingGroup) ==
  SelectSeq(group.member, LAMBDA m : m \notin Range(existingGroup))

\* members only present in FortiGate
removed(group, existingGroup) ==
  SelectSeq(existingGroup, LAMBDA m : m \notin Range(group.member))

\* mutant: a group that only lost members is not seen as changed
hasChangedAddedOnly(group, existingGroup) ==
  Len(added(group, existingGroup)) > 0

hasChanged(group, existingGroup) ==
  Len(added(group, existingGroup)) > 0 \/ Len(removed(group, existingGroup)) > 0

\* the group loop acts on a group only when it is in the snapshot and has changed
NeedsUpdate(k) ==
  /\ fortiOSGroups[k].name \in DOMAIN fgGroups
  /\ hasChanged(fortiOSGroups[k], fgGroups[fortiOSGroups[k].name])

\* first index >= k of the group loop that awaits a call, or past the end
RECURSIVE NextUpdate(_)
NextUpdate(k) ==
  IF k > Len(fortiOSGroups) THEN k
  ELSE IF NeedsUpdate(k) THEN k ELSE NextUpdate(k + 1)

\* where the pass goes when the group loop is at index k
AtGroup(k) ==
  IF NextUpdate(k) > Len(fortiOSGroups)
    THEN [pc |-> "done", i |-> 0, r |-> 0]
    ELSE [pc |-> "updateGroups", i |-> NextUpdate(k), r |-> 0]

AtCreateGroups(k) ==
  IF k > Len(missingGroups) THEN AtGroup(1)
  ELSE [pc |-> "createGroups", i |-> k, r |-> 0]

AtCreateAddresses(k) ==
  IF k > Len(missingAddresses) THEN AtCreateGroups(1)
  ELSE [pc |-> "createAddresses", i |-> k, r |-> 0]

\* mutant: a rejected call is not caught and ends the pass
OnRejectedThrows(next) == [pc |-> "thrown", i |-> 0, r |-> 0]

\* a rejected call is caught, logged, and the loop goes on
OnRejected(next) == next

\* addressInUse / address6InUse: is the name a member of a group now on the firewall
addressInUse(name) ==
  \E g \in DOMAIN fwGroups : name \in Range(fwGroups[g])

\* mutant: the naive delete, whatever the in-use check says
DeleteAlways(inUse) == TRUE

\* if (inUse) skip the deletion, else delete
DeleteUnlessInUse(inUse) == ~inUse

-----------------------------------------------------------------------------
(* Inputs of a pass: a desired state and a firewall inventory *)

\* a desired group: its name and member-name list
GroupRecords == [name : GrpNames, member : {SeqOf(M) : M \in SUBSET AddrNames}]

\* Object.values(fortiOSGroups): the groups in insertion order, names distinct
GroupLists ==
  {gs \in UNION {[1..n -> GroupRecords] : n \in 0..Cardinality(GrpNames)} :
     \A a, b \in 1..Len(gs) : gs[a].name = gs[b].name => a = b}

\* the extractor stores an address exactly when it pushes it as a member
AddressesOf(gs) ==
  LET names == UNION {Range(gs[k].member) : k \in 1..Len(gs)}
      s == SeqOf(names)
  IN  [k \in 1..Len(s) |-> AddressRecord(s[k])]

\* a vdom's stores: addresses, and groups whose members exist
Inventories ==
  {inv \in [addresses : SUBSET AddrNames,
            groups : UNION {[G -> {SeqOf(M) : M \in SUBSET AddrNames}] :
                              G \in SUBSET GrpNames}] :
     \A g \in DOMAIN inv.groups : Range(inv.groups[g]) \subseteq inv.addresses}

InitRecon ==
  /\ fortiOSGroups \in GroupLists
  /\ fortiOSAddresses = AddressesOf(fortiOSGroups)
  /\ \E inv \in Inventories :
       /\ fwAddresses = [n \in inv.addresses |-> "want"]
       /\ fwGroups = inv.groups
  /\ fgAddresses = {}
  /\ fgGroups = <<>>
  /\ pc = "getAddresses"
  /\ i = 0
  /\ r = 0
  /\ calls = <<>>
  /\ pass = 1
  /\ prevOk = TRUE

Goto(next) ==
  /\ pc' = next.pc
  /\ i' = next.i
  /\ r' = next.r

\* firewall.address.getAddresses: a rejected fetch leaves undefined, whose
\* .results throws out of the pass
GetAddresses ==
  /\ pc = "getAddresses"
  /\ \E ok \in Outcome :
       IF ok
         THEN /\ fgAddresses' = DOMAIN fwAddresses
              /\ pc' = "getAddressGroups"
         ELSE /\ pc' = "thrown"
              /\ UNCHANGED fgAddresses
  /\ UNCHANGED <<mergeVars, workVars, linkLocalVars, extractVars, fortiOSAddresses, fortiOSGroups, fwAddresses, fwGroups,
                 fgGroups, i, r, calls, pass, prevOk>>

GetAddressGroups ==
  /\ pc = "getAddressGroups"
  /\ \E ok \in Outcome :
       IF ok
         THEN /\ fgGroups' = fwGroups
              /\ UNCHANGED <<fortiOSAddresses, fortiOSGroups, fgAddresses>>
              /\ Goto(AtCreateAddresses(1)')
         ELSE /\ pc' = "thrown"
              /\ UNCHANGED <<fortiOSAddresses, fortiOSGroups, fgAddresses,
                             fgGroups, i, r>>
  /\ UNCHANGED <<mergeVars, workVars, linkLocalVars, extractVars, fwAddresses, fwGroups, calls, pass, prevOk>>

\* for (const address of missingAddresses) await addAddress(address)
CreateAddress ==
  /\ pc = "createAddresses"
  /\ LET address == missingAddresses[i] IN
     \E ok \in Outcome :
       /\ calls' = Append(calls,
            Call("addAddress", address.name, ok, NoList, NoList, NoList))
       /\ fwAddresses' = IF ok THEN (address.name :> address.subnet) @@ fwAddresses
                         ELSE fwAddresses
       /\ Goto(IF ok THEN AtCreateAddresses(i + 1)
               ELSE OnRejected(AtCreateAddresses(i + 1)))
  /\ UNCHANGED <<mergeVars, workVars, linkLocalVars, extractVars, fortiOSAddresses, fortiOSGroups, fwGroups, fgAddresses,
                 fgGroups, pass, prevOk>>

\* for (const group of missingGroups) await addAddressGroup(group)
CreateGroup ==
  /\ pc = "createGroups"
  /\ LET group == missingGroups[i] IN
     \E ok \in Outcome :
       /\ calls' = Append(calls,
            Call("addAddressGroup", group.name, ok, group.member, NoList, NoList))
       /\ fwGroups' = IF ok THEN (group.name :> group.member) @@ fwGroups
                      ELSE fwGroups
       /\ Goto(IF ok THEN AtCreateGroups(i + 1)
               ELSE OnRejected(AtCreateGroups(i + 1)))
  /\ UNCHANGED <<mergeVars, workVars, linkLocalVars, extractVars, fortiOSAddresses, fortiOSGroups, fwAddresses, fgAddresses,
                 fgGroups, pass, prevOk>>

\* where the pass goes after the update of group k
AfterUpdate(k) ==
  IF Len(removed(fortiOSGroups[k], fgGroups[fortiOSGroups[k].name])) > 0
    THEN [pc |-> "deleteAddresses", i |-> k, r |-> 1]
    ELSE AtGroup(k + 1)

\* if (hasChanged) await updateAddressGroup(group.name, group)
UpdateGroup ==
  /\ pc = "updateGroups"
  /\ LET group == fortiOSGroups[i]
         existingGroup == fgGroups[group.name]
     IN
     \E ok \in Outcome :
       /\ calls' = Append(calls,
            Call("updateAddressGroup", group.name, ok, group.member,
                 added(group, existingGroup), removed(group, existingGroup)))
       /\ fwGroups' = IF ok THEN [fwGroups EXCEPT ![group.name] = group.member]
                      ELSE fwGroups
       /\ Goto(IF ok THEN AfterUpdate(i) ELSE OnRejected(AfterUpdate(i)))
  /\ UNCHANGED <<mergeVars, workVars, linkLocalVars, extractVars, fortiOSAddresses, fortiOSGroups, fwAddresses, fgAddresses,
                 fgGroups, pass, prevOk>>

\* where the pass goes after removed[k] of group i
AfterDelete(k) ==
  IF k < Len(removed(fortiOSGroups[i], fgGroups[fortiOSGroups[i].name]))
    THEN [pc |-> "deleteAddresses", i |-> i, r |-> k + 1]
    ELSE AtGroup(i + 1)

\* for (const address of removed): delete it unless addressInUse
DeleteAddress ==
  /\ pc = "deleteAddresses"
  /\ LET group == fortiOSGroups[i]
         address == removed(group, fgGroups[group.name])[r]
         inUse == addressInUse(address)
     IN
     IF DeleteUnlessInUse(inUse)
       THEN \E ok \in Outcome :
              /\ calls' = Append(calls,
                   Call("deleteAddress", address, ok, NoList, NoList, NoList))
              /\ fwAddresses' =
                   IF ok THEN [n \in DOMAIN fwAddresses \ {address} |-> fwAddresses[n]]
                   ELSE fwAddresses
              /\ Goto(IF ok THEN AfterDelete(r) ELSE OnRejected(AfterDelete(r)))
       ELSE /\ calls' = Append(calls,
                   Call("skipDeletion", address, TRUE, NoList, NoList, NoList))
            /\ UNCHANGED fwAddresses
            /\ Goto(AfterDelete(r))
  /\ UNCHANGED <<mergeVars, workVars, linkLocalVars, extractVars, fortiOSAddresses, fortiOSGroups, fwGroups, fgAddresses,
                 fgGroups, pass, prevOk>>

\* the same desired state is reconciled again, nobody else having written
SecondPass ==
  /\ pc = "done"
  /\ pass < MaxPasses
  /\ pass' = pass + 1
  /\ prevOk' = \A k \in 1..Len(calls) : calls[k].ok
  /\ calls' = <<>>
  /\ pc' = "getAddresses"
  /\ i' = 0
  /\ r' = 0
  /\ fgAddresses' = {}
  /\ fgGroups' = <<>>
  /\ UNCHANGED <<mergeVars, workVars, linkLocalVars, extractVars, fortiOSAddresses, fortiOSGroups, fwAddresses, fwGroups>>

-----------------------------------------------------------------------------
(* ssi.utils.ts: the merge functions of the aggregate *)

\* longest member list of a fragment's group
MaxMembers == 2

\* member names of the fragments
MergeNames == {AddrPool[1], AddrPool[2]}

\* new Map filled by set(m.name, m) in list order: one entry per name, at the
\* place of its first occurrence
RECURSIVE DedupByName(_)
DedupByName(s) ==
  IF s = <<>> THEN <<>>
  ELSE LET front == DedupByName(SubSeq(s, 1, Len(s) - 1))
           m == s[Len(s)]
       IN  IF m \in Range(front) THEN front ELSE Append(front, m)

\* mutant: the incoming member list replaces the existing one
mergedMembersOverwrite(existing, incGroup) == incGroup.member

\* existing.member then incGroup.member through the Map
mergedMembers(existing, incGroup) ==
  DedupByName(existing.member \o incGroup.member)

\* mutant: { ...incGroup, ...existing }
spreadExistingLast(existing, incGroup) ==
  [f \in DOMAIN existing \cup DOMAIN incGroup |->
     IF f \in DOMAIN existing THEN existing[f] ELSE incGroup[f]]

\* { ...existing, ...incGroup }
spread(existing, incGroup) ==
  [f \in DOMAIN existing \cup DOMAIN incGroup |->
     IF f \in DOMAIN incGroup THEN incGroup[f] ELSE existing[f]]

mergeGroupObjects(target, incoming) ==
  [key \in DOMAIN target \cup DOMAIN incoming |->
     IF key \notin DOMAIN incoming THEN target[key]
     ELSE IF key \notin DOMAIN target THEN incoming[key]
     ELSE [spread(target[key], incoming[key]) EXCEPT
             !.member = mergedMembers(target[key], incoming[key])]]

\* if (!target[key]) target[key] = value
mergeAddressObjects(target, source) ==
  [key \in DOMAIN target \cup DOMAIN source |->
     IF key \in DOMAIN target THEN target[key] ELSE source[key]]

\* Object.assign(target, source)
ObjectAssign(target, source) ==
  [key \in DOMAIN target \cup DOMAIN source |->
     IF key \in DOMAIN source THEN source[key] ELSE target[key]]

EmptyObject == <<>>

MemberLists == UNION {[1..n -> MergeNames] : n \in 0..MaxMembers}

\* a fragment: groups keyed by their name; one extractor call builds all of a
\* fragment's groups with the same comment and colour
GroupFragments ==
  UNION {{f \in [G -> [name : G, comment : {c}, color : {3}, member : MemberLists]] :
            \A g \in G : f[g].name = g} :
         G \in SUBSET GrpNames, c \in {"Managed by NAM", "edited"}}

InitMerge ==
  /\ fragA \in GroupFragments
  /\ fragB \in GroupFragments
  /\ mergedAB = EmptyObject
  /\ mergedBA = EmptyObject
  /\ mpc = "start"

IdleMerge ==
  /\ fragA = EmptyObject
  /\ fragB = EmptyObject
  /\ mergedAB = EmptyObject
  /\ mergedBA = EmptyObject
  /\ mpc = "idle"

\* fragment A, then fragment B, folded into an empty aggregate
MergeAB ==
  /\ mpc = "start"
  /\ mergedAB' = mergeGroupObjects(mergeGroupObjects(EmptyObject, fragA), fragB)
  /\ mpc' = "AB"
  /\ UNCHANGED <<fragA, fragB, mergedBA, reconVars, workVars, linkLocalVars, extractVars>>

\* fragment B, then fragment A, folded into an empty aggregate
MergeBA ==
  /\ mpc = "AB"
  /\ mergedBA' = mergeGroupObjects(mergeGroupObjects(EmptyObject, fragB), fragA)
  /\ mpc' = "done"
  /\ UNCHANGED <<fragA, fragB, mergedAB, reconVars, workVars, linkLocalVars, extractVars>>

IdleRecon ==
  /\ fortiOSGroups = <<>>
  /\ fortiOSAddresses = <<>>
  /\ fwAddresses = <<>>
  /\ fwGroups = <<>>
  /\ fgAddresses = {}
  /\ fgGroups = <<>>
  /\ pc = "idle"
  /\ i = 0
  /\ r = 0
  /\ calls = <<>>
  /\ pass = 1
  /\ prevOk = TRUE

\* calls of work() the scheduler makes
MaxInvocations == 2

Invocations == 1..MaxInvocations

\* no call of work() has been made yet
NotCalled == [k \in Invocations |-> "ready"]

IdleWork ==
  /\ running = FALSE
  /\ invocations = NotCalled
  /\ integrators = <<>>
  /\ fortiOSIPv4Addresses = EmptyObject
  /\ fortiOSIPv4Groups = EmptyObject
  /\ wpc = "idle"
  /\ ii = 0
  /\ mi = 0
  /\ fi = 0

-----------------------------------------------------------------------------
(* SSIWorker.work *)

\* longest manager list of an integrator
MaxManagers == 2

ManagerPool == <<"nsx1", "nsx2", "nsx3", "nsx4">>

\* integrator.managers: 1..MaxManagers managers, each local or global
ManagerLists ==
  UNION {{[k \in 1..n |-> [name |-> ManagerPool[k], type |-> t[k]]] :
            t \in [1..n -> {"local", "global"}]} : n \in 1..MaxManagers}

\* integrator.fortigate_endpoints
EndpointLists == {<<"fg1">>, <<"fg1", "fg2">>}

Integrators ==
  [managers : ManagerLists, fortigate_endpoints : EndpointLists]

\* what the NAM API lists: one or two integrators
IntegratorLists ==
  {<<a>> : a \in Integrators} \cup {<<a, b>> : a, b \in Integrators}

scope == "prod"

tag == "web"

\* grp_${manager.name}_${scope}_${tag.name}
ipv4GroupName(manager) == "grp_" \o manager.name \o "_" \o scope \o "_" \o tag

\* index === 0 ? nsx_${vm.display_name} : ...
vmAddressName(display_name) == "nsx_" \o display_name

\* nsx_${manager.name}_${group.display_name}_${normalizedIp}/32
groupAddressName(manager, display_name, ip) ==
  "nsx_" \o manager.name \o "_" \o display_name \o "_" \o ip \o "/32"

\* type IP_Mask, subnet `${ip} 255.255.255.255`
hostAddress(name, ip) == [name |-> name, subnet |-> ip \o " 255.255.255.255"]

IPs == {"10.0.0.1", "10.0.0.2"}

\* the tagged running VMs a manager reports: none, or vm1 with one address
VMInventories == {<<>>} \cup {<<[display_name |-> "vm1", ip |-> ip]>> : ip \in IPs}

\* the tagged groups a manager reports: none, or sg1 with one address
GroupInventories == {<<>>} \cup {<<[display_name |-> "sg1", ip |-> ip]>> : ip \in IPs}

NamGroup(name, member) ==
  [name |-> name, comment |-> "Managed by NAM", color |-> 3, member |-> member]

\* a key is set only if (!object[key])
SetIfAbsent(object, key, value) ==
  IF key \in DOMAIN object THEN object ELSE (key :> value) @@ object

\* getVMTagsGroupsAndMembers, from VM k on: the address is stored if its name is
\* new to the fragment, and pushed as a member of the tag's group
RECURSIVE VMLoop(_, _, _, _)
VMLoop(manager, vms, k, frag) ==
  IF k > Len(vms) THEN frag
  ELSE LET name == vmAddressName(vms[k].display_name)
           grp == ipv4GroupName(manager)
       IN  VMLoop(manager, vms, k + 1,
             [fortiOSIPv4Addresses |->
                SetIfAbsent(frag.fortiOSIPv4Addresses, name,
                            hostAddress(name, vms[k].ip)),
              fortiOSIPv4Groups |->
                [frag.fortiOSIPv4Groups EXCEPT
                   ![grp].member = Append(@, name)]])

\* the tag's group exists in the fragment whether or not a VM carries the tag
VMFragment(manager, vms) ==
  VMLoop(manager, vms, 1,
    [fortiOSIPv4Addresses |-> EmptyObject,
     fortiOSIPv4Groups |->
       (ipv4GroupName(manager) :> NamGroup(ipv4GroupName(manager), <<>>))])

\* getGroupTagsGroupsAndMembers, from tagged group k on: the tag's group is made
\* on the first tagged group; the address is stored if new, and pushed as a member
\* if not one yet
RECURSIVE GroupLoop(_, _, _, _)
GroupLoop(manager, groups, k, frag) ==
  IF k > Len(groups) THEN frag
  ELSE LET name == groupAddressName(manager, groups[k].display_name, groups[k].ip)
           grp == ipv4GroupName(manager)
           made == SetIfAbsent(frag.fortiOSIPv4Groups, grp, NamGroup(grp, <<>>))
       IN  GroupLoop(manager, groups, k + 1,
             [fortiOSIPv4Addresses |->
                SetIfAbsent(frag.fortiOSIPv4Addresses, name,
                            hostAddress(name, groups[k].ip)),
              fortiOSIPv4Groups |->
                [made EXCEPT
                   ![grp].member = IF name \in Range(@) THEN @ ELSE Append(@, name)]])

GroupFragment(manager, groups) ==
  GroupLoop(manager, groups, 1,
    [fortiOSIPv4Addresses |-> EmptyObject, fortiOSIPv4Groups |-> EmptyObject])

lm(manager) == manager.type = "local" \/ manager.type = "global_managed"

\* the loops of work(): where the run is when fortigate endpoint f of manager m of
\* integrator k is next
RECURSIVE AtIntegrator(_)
RECURSIVE AtManager(_, _)
AtEndpoint(k, m, f) ==
  IF f > Len(integrators[k].fortigate_endpoints) THEN AtManager(k, m + 1)
  ELSE [wpc |-> "fortigate", ii |-> k, mi |-> m, fi |-> f]

AtManager(k, m) ==
  IF m > Len(integrators[k].managers) THEN AtIntegrator(k + 1)
  ELSE IF lm(integrators[k].managers[m])
    THEN [wpc |-> "getVMTags", ii |-> k, mi |-> m, fi |-> 0]
    ELSE [wpc |-> "getGroupTags", ii |-> k, mi |-> m, fi |-> 0]

AtIntegrator(k) ==
  IF k > Len(integrators) THEN [wpc |-> "returned", ii |-> ii, mi |-> mi, fi |-> fi]
  ELSE AtManager(k, 1)

\* mutant: the guard does not see the flag
isRunningNever == FALSE

\* get isRunning() { return this._running }
isRunning == running

\* the invocations past the guard
PastGuard == {k \in Invocations : invocations[k] = "running"}

\* an invocation past the guard ends, by return 0 or by the throw of the catch
Finish(status) ==
  \E k \in PastGuard : invocations' = [invocations EXCEPT ![k] = status]

WGoto(next) ==
  /\ wpc' = next.wpc
  /\ ii' = next.ii
  /\ mi' = next.mi
  /\ fi' = next.fi
  \* this._running = false; return 0
  /\ running' = IF next.wpc = "returned" THEN FALSE ELSE running
  /\ IF next.wpc = "returned" THEN Finish("returned0") ELSE UNCHANGED invocations
  \* let fortiOSIPv4Groups = {}, fortiOSIPv4Addresses = {} of the next integrator
  /\ IF next.wpc # "returned" /\ next.ii # ii
       THEN /\ fortiOSIPv4Addresses' = EmptyObject
            /\ fortiOSIPv4Groups' = EmptyObject
       ELSE UNCHANGED <<fortiOSIPv4Addresses, fortiOSIPv4Groups>>

\* mutant: the catch rethrows without releasing the flag
ThrowKeepsFlag ==
  /\ wpc' = "thrown"
  /\ running' = running
  /\ Finish("thrown")
  /\ UNCHANGED <<ii, mi, fi, fortiOSIPv4Addresses, fortiOSIPv4Groups>>

\* catch (error) { this._running = false; throw error }
Throw ==
  /\ wpc' = "thrown"
  /\ running' = FALSE
  /\ Finish("thrown")
  /\ UNCHANGED <<ii, mi, fi, fortiOSIPv4Addresses, fortiOSIPv4Groups>>

InitWork ==
  /\ running = FALSE
  /\ invocations = NotCalled
  /\ integrators \in IntegratorLists
  /\ fortiOSIPv4Addresses = EmptyObject
  /\ fortiOSIPv4Groups = EmptyObject
  /\ wpc = "idle"
  /\ ii = 0
  /\ mi = 0
  /\ fi = 0

\* a call of work(): if (!this.isRunning) { this._running = true; ... } else
\* return 7. The test and the assignment have no await between them. wpc, ii, mi,
\* fi and the aggregates are the locals of the invocation past the guard.
Work ==
  /\ \E k \in Invocations :
       /\ invocations[k] = "ready"
       /\ IF ~isRunning
            THEN /\ running' = TRUE
                 /\ invocations' = [invocations EXCEPT ![k] = "running"]
                 /\ wpc' = "getNsxIntegrators"
                 /\ ii' = 0
                 /\ mi' = 0
                 /\ fi' = 0
                 /\ fortiOSIPv4Addresses' = EmptyObject
                 /\ fortiOSIPv4Groups' = EmptyObject
            ELSE /\ invocations' = [invocations EXCEPT ![k] = "returned7"]
                 /\ UNCHANGED <<running, wpc, ii, mi, fi, fortiOSIPv4Addresses,
                                fortiOSIPv4Groups>>
  /\ UNCHANGED integrators
  /\ UNCHANGED <<reconVars, mergeVars, linkLocalVars, extractVars>>

\* await getNsxIntegrators(...): the list, or a rejection that ends the run
GetNsxIntegrators ==
  /\ wpc = "getNsxIntegrators"
  /\ \E ok \in Outcome :
       IF ok THEN WGoto(AtIntegrator(1)) ELSE Throw
  /\ UNCHANGED integrators
  /\ UNCHANGED <<reconVars, mergeVars, linkLocalVars, extractVars>>

\* await getVMTagsGroupsAndMembers(...), then Object.assign into the aggregate
GetVMTags ==
  /\ wpc = "getVMTags"
  /\ LET manager == integrators[ii].managers[mi] IN
     \/ \E vms \in VMInventories :
          LET result == VMFragment(manager, vms) IN
          /\ fortiOSIPv4Groups' =
               ObjectAssign(fortiOSIPv4Groups, result.fortiOSIPv4Groups)
          /\ fortiOSIPv4Addresses' =
               ObjectAssign(fortiOSIPv4Addresses, result.fortiOSIPv4Addresses)
          /\ wpc' = "getGroupTags"
          /\ UNCHANGED <<running, invocations, ii, mi, fi>>
     \/ Throw
  /\ UNCHANGED integrators
  /\ UNCHANGED <<reconVars, mergeVars, linkLocalVars, extractVars>>

\* await getGroupTagsGroupsAndMembers(...), then the two merges
GetGroupTags ==
  /\ wpc = "getGroupTags"
  /\ LET manager == integrators[ii].managers[mi] IN
     \/ \E groups \in GroupInventories :
          LET result == GroupFragment(manager, groups) IN
          /\ fortiOSIPv4Addresses' =
               mergeAddressObjects(fortiOSIPv4Addresses, result.fortiOSIPv4Addresses)
          /\ fortiOSIPv4Groups' =
               mergeGroupObjects(fortiOSIPv4Groups, result.fortiOSIPv4Groups)
          /\ LET next == AtEndpoint(ii, mi, 1) IN
             /\ wpc' = next.wpc
             /\ ii' = next.ii
             /\ mi' = next.mi
             /\ fi' = next.fi
          /\ UNCHANGED <<running, invocations>>
     \/ Throw
  /\ UNCHANGED integrators
  /\ UNCHANGED <<reconVars, mergeVars, linkLocalVars, extractVars>>

\* this._firewall = this._configureFirewall(...); await Promise.all(vdoms.map(...))
\* whose callback is empty
Fortigate ==
  /\ wpc = "fortigate"
  /\ WGoto(AtEndpoint(ii, mi, fi + 1))
  /\ UNCHANGED integrators
  /\ UNCHANGED <<reconVars, mergeVars, linkLocalVars, extractVars>>

-----------------------------------------------------------------------------
(* Strings, as the code takes them apart *)

Char(s, k) == SubSeq(s, k, k)

\* s.includes(c), c one character
includes(s, c) == \E k \in 1..Len(s) : Char(s, k) = c

\* place of the first c in s, 0 when there is none
indexOf(s, c) ==
  IF includes(s, c)
    THEN CHOOSE k \in 1..Len(s) :
           Char(s, k) = c /\ \A j \in 1..(k - 1) : Char(s, j) # c
    ELSE 0

\* s.split(c)[0]
splitHead(s, c) ==
  IF indexOf(s, c) = 0 THEN s ELSE SubSeq(s, 1, indexOf(s, c) - 1)

\* s.split(c)[1], s holding one c
splitTail(s, c) == SubSeq(s, indexOf(s, c) + 1, Len(s))

startsWith(s, p) == Len(s) >= Len(p) /\ SubSeq(s, 1, Len(p)) = p

-----------------------------------------------------------------------------
(* ipaddr.js, on well-formed literals *)

\* ipaddr.parse takes a host address; CIDR notation and ranges make it throw
ipaddrIsValid(s) == ~includes(s, "/") /\ ~includes(s, "-")

\* ipaddr.parse(s).kind()
kind(s) == IF includes(s, ":") THEN "ipv6" ELSE "ipv4"

\* ipaddr.parse(s).range(): 169.254.0.0/16 and fe80::/10 are linkLocal
range(s) ==
  IF kind(s) = "ipv4"
    THEN IF startsWith(s, "169.254.") THEN "linkLocal"
         ELSE IF startsWith(s, "10.") THEN "private" ELSE "unicast"
    ELSE IF \E p \in {"fe8", "fe9", "fea", "feb"} : startsWith(s, p)
           THEN "linkLocal"
           ELSE IF startsWith(s, "2001:db8:") THEN "reserved" ELSE "unicast"

-----------------------------------------------------------------------------
(* removeLinkLocalAddresses *)

\* longest list handed to the filter
MaxLen == 3

\* mutant: a range is looked at like a host
filterVerdictNoRanges(address) ==
  IF ~ipaddrIsValid(splitHead(address, "/")) THEN "throw"
  ELSE IF range(splitHead(address, "/")) # "linkLocal" THEN "keep"
  ELSE IF ~ipaddrIsValid(address) THEN "throw"
  ELSE IF range(address) # "linkLocal" THEN "keep"
  ELSE "drop"

\* the filter callback on one element: the element is kept, dropped (the
\* callback returns undefined), or a parse throws
filterVerdict(address) ==
  IF includes(address, "-") THEN "keep"
  ELSE IF ~ipaddrIsValid(splitHead(address, "/")) THEN "throw"
  ELSE IF range(splitHead(address, "/")) # "linkLocal" THEN "keep"
  ELSE IF ~ipaddrIsValid(address) THEN "throw"
  ELSE IF range(address) # "linkLocal" THEN "keep"
  ELSE "drop"

\* addresses.filter(...); catch (error) { throw error }
removeLinkLocalAddresses(list) ==
  IF \E k \in 1..Len(list) : filterVerdict(list[k]) = "throw"
    THEN [thrown |-> TRUE, value |-> <<>>]
    ELSE [thrown |-> FALSE,
          value |-> SelectSeq(list, LAMBDA a : filterVerdict(a) = "keep")]

\* hosts, CIDR blocks and ranges, link-local and not, of both versions
Literals ==
  {"10.0.0.5", "169.254.1.1", "2001:db8::1", "fe80::1",
   "10.0.0.0/24", "169.254.0.0/16",
   "10.0.0.1-10.0.0.9", "169.254.1.1-169.254.1.9"}

LiteralLists == UNION {[1..n -> Literals] : n \in 0..MaxLen}

InitLinkLocal ==
  /\ addresses \in LiteralLists
  /\ filtered = [thrown |-> FALSE, value |-> <<>>]
  /\ lpc = "call"

IdleLinkLocal ==
  /\ addresses = <<>>
  /\ filtered = [thrown |-> FALSE, value |-> <<>>]
  /\ lpc = "idle"

RemoveLinkLocal ==
  /\ lpc = "call"
  /\ filtered' = removeLinkLocalAddresses(addresses)
  /\ lpc' = IF filtered'.thrown THEN "thrown" ELSE "returned"
  /\ UNCHANGED addresses
  /\ UNCHANGED <<reconVars, mergeVars, workVars, extractVars>>

-----------------------------------------------------------------------------
(* ip-num Validator and the address builders of ssi.utils.ts *)

isValidIPv4String(s) == ~includes(s, ":") /\ ~includes(s, "/") /\ ~includes(s, "-")

isValidIPv4CidrNotation(s) == ~includes(s, ":") /\ includes(s, "/") /\ ~includes(s, "-")

isValidIPv4RangeString(s) == ~includes(s, ":") /\ includes(s, "-")

isValidIPv6String(s) == includes(s, ":") /\ ~includes(s, "/") /\ ~includes(s, "-")

isValidIPv6CidrNotation(s) == includes(s, ":") /\ includes(s, "/") /\ ~includes(s, "-")

isValidIPv6RangeString(s) == includes(s, ":") /\ includes(s, "-")

\* IPv4CidrRange.fromCidr(ip).getPrefix().toMask().toString()
toMask(prefix) ==
  CASE prefix = "16" -> "255.255.0.0"
    [] prefix = "24" -> "255.255.255.0"
    [] prefix = "32" -> "255.255.255.255"

null == [null |-> TRUE]

HashedComment == "Hashed address name due to length"

createIPv4Address(ip, addressName, isHashed) ==
  IF isValidIPv4String(ip)
    THEN [name |-> addressName, type |-> "ipmask",
          subnet |-> ip \o " 255.255.255.255",
          comment |-> IF isHashed THEN HashedComment ELSE ""]
  ELSE IF isValidIPv4CidrNotation(ip)
    THEN [name |-> addressName, type |-> "ipmask",
          subnet |-> splitHead(ip, "/") \o " " \o toMask(splitTail(ip, "/")),
          comment |-> IF isHashed THEN HashedComment ELSE ""]
  ELSE IF isValidIPv4RangeString(ip)
    THEN [name |-> addressName, type |-> "iprange",
          start_ip |-> splitHead(ip, "-"), end_ip |-> splitTail(ip, "-"),
          comment |-> IF isHashed THEN HashedComment ELSE ""]
  ELSE null

\* a host without a prefix length is neither CIDR notation nor a range
createIPv6Address(ip, addressName, isHashed) ==
  IF isValidIPv6CidrNotation(ip)
    THEN [name |-> addressName, type |-> "ipprefix", ip6 |-> ip,
          comment |-> IF isHashed THEN HashedComment ELSE ""]
  ELSE IF isValidIPv6RangeString(ip)
    THEN [name |-> addressName, type |-> "iprange",
          start_ip |-> splitHead(ip, "-"), end_ip |-> splitTail(ip, "-"),
          comment |-> IF isHashed THEN HashedComment ELSE ""]
  ELSE null

\* createHash("md5").update(address).digest("hex")
hashIpAddress(address) ==
  CASE address = "10.0.0.5" -> "0669df0f031fb83e345267a9679bbc6a"
    [] address = "10.0.0.7" -> "00958fd0af98291fdf517e3fe763da5c"
    [] address = "10.0.0.0/24" -> "37ef7ef83ff2b5f21be63f46c4db908e"
    [] address = "10.0.0.1-10.0.0.9" -> "f624cd29bbf716fc8c99484647399f11"
    [] address = "169.254.1.1" -> "ac5f73f67b0d5cd66db9af2c4ff0413a"
    [] address = "169.254.0.0/16" -> "466bc4ea1f9ceee0f0f86e262716c542"
    [] address = "2001:db8::1" -> "1d64d10fff2ff210518623b74a8c1696"
    [] address = "2001:db8::/64" -> "61733afbfaa4b31e85589261b09fcc3c"
    [] address = "fe80::1" -> "1b29d948bb37422fb64d7ca5ef0b16ad"

-----------------------------------------------------------------------------
(* extractIpAddresses *)

\* the characters of the literals, by code unit
CharOrder == "-./0123456789:abcdef"

codeUnit(c) == CHOOSE k \in 1..Len(CharOrder) : Char(CharOrder, k) = c

\* a < b, as Array.prototype.sort compares strings
RECURSIVE lessThan(_, _)
lessThan(a, b) ==
  IF Len(b) = 0 THEN FALSE
  ELSE IF Len(a) = 0 THEN TRUE
  ELSE IF Char(a, 1) = Char(b, 1)
    THEN lessThan(SubSeq(a, 2, Len(a)), SubSeq(b, 2, Len(b)))
  ELSE codeUnit(Char(a, 1)) < codeUnit(Char(b, 1))

\* .sort() of a list without repeats
sort(s) ==
  [k \in 1..Len(s) |->
     CHOOSE x \in Range(s) :
       Cardinality({y \in Range(s) : lessThan(y, x)}) = k - 1]

\* [...new Set(ips)]
NewSet(ips) == DedupByName(ips)

\* the addresses of all the VM's interfaces, each once, sorted
extractIpAddresses(ips) == sort(NewSet(ips))

-----------------------------------------------------------------------------
(* nsx.service.ts: the extractor called for one manager *)

\* longest address list NSX reports for one VM or one group
MaxIps == 2

\* a display name of 76 characters
LongName ==
  "prod-customer-portal-backend-application-server-with-a-long-display-name-001"

\* what a virtual interface reports: host addresses
VifHosts == {"10.0.0.1", "10.0.0.5", "169.254.1.1", "2001:db8::1", "fe80::1"}

\* what a group's members and expressions hold
GroupLiterals ==
  {"10.0.0.5", "10.0.0.7/32", "10.0.0.0/24", "10.0.0.1-10.0.0.9",
   "169.254.1.1", "169.254.0.0/16", "2001:db8::1", "2001:db8::/64", "fe80::1"}

ListsOf(S, n) == UNION {[1..k -> S] : k \in 0..n}

\* grp6_${manager.name}_${scope}_${tag.name}
ipv6GroupName(manager) == "grp6_" \o manager.name \o "_" \o scope \o "_" \o tag

\* index === 0 ? nsx_${vm.display_name} : nsx_${vm.display_name}_${ip}
ipv4AddressName(display_name, index, ip) ==
  IF index = 0 THEN vmAddressName(display_name)
  ELSE vmAddressName(display_name) \o "_" \o ip

\* index === 0 ? nsx6_${vm.display_name} : nsx6_${vm.display_name}_${ip}
ipv6AddressName(display_name, index, ip) ==
  IF index = 0 THEN "nsx6_" \o display_name
  ELSE "nsx6_" \o display_name \o "_" \o ip

EmptyFragment ==
  [fortiOSIPv4Groups |-> EmptyObject, fortiOSIPv4Addresses |-> EmptyObject,
   fortiOSIPv6Groups |-> EmptyObject, fortiOSIPv6Addresses |-> EmptyObject]

\* return { fortiOSIPv4Groups, ... }
Returned(frag) == [thrown |-> FALSE, fragment |-> frag]

\* catch (error) { throw error }
Thrown == [thrown |-> TRUE, fragment |-> EmptyFragment]

\* for (const [index, ip] of ipv4Addresses.entries())
RECURSIVE VMIPv4Loop(_, _, _, _, _)
VMIPv4Loop(manager, vm, ips, k, frag) ==
  IF k > Len(ips) THEN frag
  ELSE LET name == ipv4AddressName(vm.display_name, k - 1, ips[k]) IN
       VMIPv4Loop(manager, vm, ips, k + 1,
         [frag EXCEPT
            !.fortiOSIPv4Addresses =
               SetIfAbsent(@, name,
                 [name |-> name, type |-> "ipmask",
                  subnet |-> ips[k] \o " 255.255.255.255",
                  color |-> 0, comment |-> ""]),
            !.fortiOSIPv4Groups[ipv4GroupName(manager)].member =
               Append(@, name)])

\* for (const [index, ip] of ipv6Addresses.entries())
RECURSIVE VMIPv6Loop(_, _, _, _, _)
VMIPv6Loop(manager, vm, ips, k, frag) ==
  IF k > Len(ips) THEN frag
  ELSE LET name == ipv6AddressName(vm.display_name, k - 1, ips[k]) IN
       VMIPv6Loop(manager, vm, ips, k + 1,
         [frag EXCEPT
            !.fortiOSIPv6Addresses =
               SetIfAbsent(@, name,
                 [name |-> name, type |-> "ipprefix",
                  ip6 |-> ips[k] \o "/128",
                  color |-> 0, comment |-> ""]),
            !.fortiOSIPv6Groups[ipv6GroupName(manager)].member =
               Append(@, name)])

\* the body of the loop over the tagged VMs: the interfaces are fetched without
\* a catch, the link-local addresses removed, the rest parted by version
TaggedVM(manager, vm, frag) ==
  IF ~vm.vifs THEN Thrown
  ELSE LET IPAddresses == extractIpAddresses(vm.ip_addresses)
           noneLinkLocalIPAddresses == removeLinkLocalAddresses(IPAddresses)
       IN  IF noneLinkLocalIPAddresses.thrown THEN Thrown
           ELSE IF \E k \in 1..Len(noneLinkLocalIPAddresses.value) :
                     ~ipaddrIsValid(noneLinkLocalIPAddresses.value[k])
             THEN Thrown
           ELSE LET ipv4Addresses ==
                      SelectSeq(noneLinkLocalIPAddresses.value,
                                LAMBDA ip : kind(ip) = "ipv4")
                    ipv6Addresses ==
                      SelectSeq(noneLinkLocalIPAddresses.value,
                                LAMBDA ip : kind(ip) = "ipv6")
                IN  Returned(
                      VMIPv6Loop(manager, vm, ipv6Addresses, 1,
                        VMIPv4Loop(manager, vm, ipv4Addresses, 1, frag)))

RECURSIVE TaggedVMs(_, _, _, _)
TaggedVMs(manager, vms, k, result) ==
  IF result.thrown \/ k > Len(vms) THEN result
  ELSE TaggedVMs(manager, vms, k + 1, TaggedVM(manager, vms[k], result.fragment))

\* a rejected search is caught and leaves scopedVirtualMachines undefined, whose
\* .filter in filterVMsByTag throws; both groups of the tag are made before the
\* VMs are looked at
getVMTagsGroupsAndMembers(manager, input) ==
  IF ~input.search THEN Thrown
  ELSE TaggedVMs(manager, input.vms, 1,
         Returned([EmptyFragment EXCEPT
           !.fortiOSIPv4Groups =
              (ipv4GroupName(manager) :> NamGroup(ipv4GroupName(manager), <<>>)),
           !.fortiOSIPv6Groups =
              (ipv6GroupName(manager) :> NamGroup(ipv6GroupName(manager), <<>>))]))

\* if (ip.includes("/") && ip.split("/")[1] === "32") normalizedIp = ip.split("/")[0]
normalizedIp(ip) ==
  IF includes(ip, "/") /\ splitTail(ip, "/") = "32" THEN splitHead(ip, "/") ELSE ip

\* nsx_${manager.name}_${group.display_name}_${normalizedIp}, "/32" after a host
canonicalIPv4AddressName(manager, display_name, ip) ==
  "nsx_" \o manager.name \o "_" \o display_name \o "_" \o ip
    \o (IF isValidIPv4String(ip) THEN "/32" ELSE "")

\* nsx6_${manager.name}_${group.display_name}_${normalizedIp}
canonicalIPv6AddressName(manager, display_name, ip) ==
  "nsx6_" \o manager.name \o "_" \o display_name \o "_" \o ip

\* if (ipv4AddressName.length > 79) the literal is replaced by its hash
groupIPv4AddressName(manager, display_name, ip) ==
  IF Len(canonicalIPv4AddressName(manager, display_name, ip)) > 79
    THEN "nsx_" \o manager.name \o "_" \o display_name \o "_" \o hashIpAddress(ip)
    ELSE canonicalIPv4AddressName(manager, display_name, ip)

\* if (ipv6AddressName.length > 79) the group and the literal are replaced by
\* the literal's hash
groupIPv6AddressName(manager, display_name, ip) ==
  IF Len(canonicalIPv6AddressName(manager, display_name, ip)) > 79
    THEN "nsx6_" \o manager.name \o "_" \o hashIpAddress(ip)
    ELSE canonicalIPv6AddressName(manager, display_name, ip)

\* member.some((member) => member.name === name) or push
PushIfAbsent(member, name) ==
  IF name \in Range(member) THEN member ELSE Append(member, name)

\* if (!addresses[name]) { if (address) addresses[name] = address }
StoreAddress(object, name, address) ==
  IF name \in DOMAIN object \/ address = null THEN object
  ELSE (name :> address) @@ object

\* the body of the loop over groupIpAddresses; isHashed is the length of the
\* name after the replacement
ProcessIp(manager, group, groupVifAddresses, ip, frag) ==
  LET nip == normalizedIp(ip)
      isIPv4 == \/ isValidIPv4String(nip)
                \/ isValidIPv4CidrNotation(nip)
                \/ isValidIPv4RangeString(nip)
      isIPv6 == \/ isValidIPv6String(nip)
                \/ isValidIPv6CidrNotation(nip)
                \/ isValidIPv6RangeString(nip)
      name4 == groupIPv4AddressName(manager, group.display_name, nip)
      name6 == groupIPv6AddressName(manager, group.display_name, nip)
  IN  IF nip \in Range(groupVifAddresses) THEN frag
      ELSE IF isIPv4
        THEN [frag EXCEPT
                !.fortiOSIPv4Addresses =
                   StoreAddress(@, name4,
                     createIPv4Address(nip, name4, Len(name4) > 79)),
                !.fortiOSIPv4Groups[ipv4GroupName(manager)].member =
                   PushIfAbsent(@, name4)]
      ELSE IF isIPv6
        THEN [frag EXCEPT
                !.fortiOSIPv6Addresses =
                   StoreAddress(@, name6,
                     createIPv6Address(nip, name6, Len(name6) > 79)),
                !.fortiOSIPv6Groups[ipv6GroupName(manager)].member =
                   PushIfAbsent(@, name6)]
      ELSE frag

RECURSIVE ProcessIps(_, _, _, _, _, _)
ProcessIps(manager, group, groupVifAddresses, ips, k, frag) ==
  IF k > Len(ips) THEN frag
  ELSE ProcessIps(manager, group, groupVifAddresses, ips, k + 1,
         ProcessIp(manager, group, groupVifAddresses, ips[k], frag))

NoMembers ==
  [thrown |-> TRUE, groupIpAddresses |-> <<>>, groupVifAddresses |-> <<>>]

\* a global manager: the addresses of the expressions are collected, the sites
\* and their enforcement points are listed without a catch, and groupIpAddresses
\* is then set to the enforcement points' addresses, link-local removed, each once
GlobalMembers(group) ==
  IF ~group.sites THEN NoMembers
  ELSE LET noneLinkLocalEPIPAddresses ==
             removeLinkLocalAddresses(group.enforcementPoint)
       IN  IF noneLinkLocalEPIPAddresses.thrown THEN NoMembers
           ELSE [thrown |-> FALSE,
                 groupIpAddresses |-> NewSet(noneLinkLocalEPIPAddresses.value),
                 groupVifAddresses |-> <<>>]

\* a local manager: a rejected members/ip-addresses query is caught and leaves
\* undefined, which concat makes an element of groupIpAddresses, whose
\* .includes throws in the loop over the addresses; a rejected members/vifs
\* query is caught and leaves undefined, whose iteration throws
LocalMembers(group) ==
  IF ~group.vifs THEN NoMembers
  ELSE IF ~group.ips THEN NoMembers
  ELSE [thrown |-> FALSE,
        groupIpAddresses |-> group.ip_members,
        groupVifAddresses |-> group.vif_addresses]

\* the body of the loop over the tagged groups
TaggedGroup(manager, group, frag) ==
  LET made ==
        [frag EXCEPT
           !.fortiOSIPv4Groups =
              SetIfAbsent(@, ipv4GroupName(manager),
                          NamGroup(ipv4GroupName(manager), <<>>)),
           !.fortiOSIPv6Groups =
              SetIfAbsent(@, ipv6GroupName(manager),
                          NamGroup(ipv6GroupName(manager), <<>>))]
      members == IF manager.type = "global" THEN GlobalMembers(group)
                 ELSE LocalMembers(group)
  IN  IF members.thrown THEN Thrown
      ELSE Returned(ProcessIps(manager, group, members.groupVifAddresses,
                               members.groupIpAddresses, 1, made))

RECURSIVE TaggedGroups(_, _, _, _)
TaggedGroups(manager, groups, k, result) ==
  IF result.thrown \/ k > Len(groups) THEN result
  ELSE TaggedGroups(manager, groups, k + 1,
         TaggedGroup(manager, groups[k], result.fragment))

\* a rejected search is caught and leaves scopedGroups undefined, whose .filter
\* in filterGroupsByTag throws
getGroupTagsGroupsAndMembers(manager, input) ==
  IF ~input.search THEN Thrown
  ELSE TaggedGroups(manager, input.groups, 1, Returned(EmptyFragment))

-----------------------------------------------------------------------------
(* What NSX answers, and the calls of the extractor *)

\* number of extraction runs under SpecRuns
MaxRuns == 2

VMDisplayNames == {"vm1", LongName}

GroupDisplayNames == {"sg1", LongName}

\* a tagged running VM and the answer to the query for its interfaces
VirtualMachines ==
  {vm \in [display_name : VMDisplayNames, vifs : BOOLEAN,
           ip_addresses : ListsOf(VifHosts, MaxIps)] :
     ~vm.vifs => vm.ip_addresses = <<>>}

\* the VMs of an inventory in which two VMs carry the tag: display names are not
\* unique in the inventory, and each VM has at most one address
SingleHomed ==
  {vm \in VirtualMachines : vm.vifs /\ Len(vm.ip_addresses) <= 1}

\* the answer to the VM search, and the VMs that carry the tag
VMInputs ==
  {[search |-> FALSE, vms |-> <<>>, groups |-> <<>>],
   [search |-> TRUE, vms |-> <<>>, groups |-> <<>>]}
  \cup {[search |-> TRUE, vms |-> <<vm>>, groups |-> <<>>] : vm \in VirtualMachines}
  \cup {[search |-> TRUE, vms |-> <<vm, other>>, groups |-> <<>>] :
          vm \in SingleHomed, other \in SingleHomed}

\* what members/vifs reports for a group
VifAddressLists == {<<>>, <<"10.0.0.5">>, <<"10.0.0.7">>}

\* a tagged group of a local manager and the answers to its two member queries
LocalGroups ==
  {g \in [display_name : GroupDisplayNames, expression : {<<>>},
          sites : {TRUE}, enforcementPoint : {<<>>},
          ips : BOOLEAN, ip_members : ListsOf(GroupLiterals, MaxIps),
          vifs : BOOLEAN, vif_addresses : VifAddressLists] :
     /\ ~g.ips => g.ip_members = <<>>
     /\ ~g.vifs => g.vif_addresses = <<>>}

\* a tagged group of a global manager: its expressions' addresses, the answer to
\* the listing of sites and enforcement points, and the enforcement points'
\* members
GlobalGroups ==
  {g \in [display_name : GroupDisplayNames, expression : ListsOf(GroupLiterals, 1),
          sites : BOOLEAN, enforcementPoint : ListsOf(GroupLiterals, MaxIps),
          ips : {TRUE}, ip_members : {<<>>},
          vifs : {TRUE}, vif_addresses : {<<>>}] :
     ~g.sites => g.enforcementPoint = <<>>}

GroupInputs(manager) ==
  {[search |-> FALSE, vms |-> <<>>, groups |-> <<>>],
   [search |-> TRUE, vms |-> <<>>, groups |-> <<>>]}
  \cup {[search |-> TRUE, vms |-> <<>>, groups |-> <<g>>] :
          g \in IF manager.type = "global" THEN GlobalGroups ELSE LocalGroups}

NoInput == [search |-> TRUE, vms |-> <<>>, groups |-> <<>>]

NoResult == [call |-> "none", thrown |-> FALSE, fragment |-> EmptyFragment]

\* the (owner, literal, name) triples of the addresses in the fragment of a VM
\* call: the name each of the VM's literals is stored under
StoredNames(input, fragment) ==
  UNION {
    {[owner |-> input.vms[v].display_name, literal |-> l, name |-> n] :
       <<l, n>> \in
         {x \in VifHosts \X DOMAIN fragment.fortiOSIPv4Addresses :
            /\ startsWith(x[2], "nsx_" \o input.vms[v].display_name)
            /\ fragment.fortiOSIPv4Addresses[x[2]].subnet =
                 x[1] \o " 255.255.255.255"}
         \cup
         {x \in VifHosts \X DOMAIN fragment.fortiOSIPv6Addresses :
            /\ startsWith(x[2], "nsx6_" \o input.vms[v].display_name)
            /\ fragment.fortiOSIPv6Addresses[x[2]].ip6 = x[1] \o "/128"}} :
    v \in 1..Len(input.vms)}

InitExtract ==
  /\ exManager \in [name : {"nsx1"}, type : {"local", "global"}]
  /\ exInput = NoInput
  /\ exResult = NoResult
  /\ exPc \in IF lm(exManager) THEN {"getVMTags", "getGroupTags"}
              ELSE {"getGroupTags"}
  /\ exRun = 1
  /\ exNames = {}

InitRuns ==
  /\ exManager \in [name : {"nsx1"}, type : {"local"}]
  /\ exInput = NoInput
  /\ exResult = NoResult
  /\ exPc = "getVMTags"
  /\ exRun = 1
  /\ exNames = {}

IdleExtract ==
  /\ exManager = [name |-> "nsx1", type |-> "local"]
  /\ exInput = NoInput
  /\ exResult = NoResult
  /\ exPc = "idle"
  /\ exRun = 1
  /\ exNames = {}

\* const result = await getVMTagsGroupsAndMembers(this._nsx, integrator, manager)
ExtractVMTags ==
  /\ exPc = "getVMTags"
  /\ \E input \in VMInputs :
       LET result == getVMTagsGroupsAndMembers(exManager, input) IN
       /\ exInput' = input
       /\ exResult' = [call |-> "vm", thrown |-> result.thrown,
                       fragment |-> result.fragment]
       /\ exPc' = IF result.thrown THEN "thrown" ELSE "returned"
  /\ UNCHANGED <<exManager, exRun, exNames>>
  /\ UNCHANGED <<reconVars, mergeVars, workVars, linkLocalVars>>

\* const result = await getGroupTagsGroupsAndMembers(this._nsx, integrator, manager)
ExtractGroupTags ==
  /\ exPc = "getGroupTags"
  /\ \E input \in GroupInputs(exManager) :
       LET result == getGroupTagsGroupsAndMembers(exManager, input) IN
       /\ exInput' = input
       /\ exResult' = [call |-> "group", thrown |-> result.thrown,
                       fragment |-> result.fragment]
       /\ exPc' = IF result.thrown THEN "thrown" ELSE "returned"
  /\ UNCHANGED <<exManager, exRun, exNames>>
  /\ UNCHANGED <<reconVars, mergeVars, workVars, linkLocalVars>>

\* the next run of work() calls the VM extractor for the same manager again;
\* the names the last call stored are remembered
NextRun ==
  /\ exPc \in {"returned", "thrown"}
  /\ exResult.call = "vm"
  /\ exRun < MaxRuns
  /\ exRun' = exRun + 1
  /\ exNames' = IF exResult.thrown THEN exNames
                ELSE exNames \cup StoredNames(exInput, exResult.fragment)
  /\ exInput' = NoInput
  /\ exResult' = NoResult
  /\ exPc' = "getVMTags"
  /\ UNCHANGED exManager
  /\ UNCHANGED <<reconVars, mergeVars, workVars, linkLocalVars>>


Pass ==
  \/ GetAddresses
  \/ GetAddressGroups
  \/ CreateAddress
  \/ CreateGroup
  \/ UpdateGroup
  \/ DeleteAddress

Init == InitRecon /\ IdleMerge /\ IdleWork /\ IdleLinkLocal /\ IdleExtract

Next == Pass

Spec == Init /\ [][Next]_vars

NextTwice == Pass \/ SecondPass

SpecTwice == Init /\ [][NextTwice]_vars
\* the vdom's stores when an address that exists under a desired name may hold
\* another payload than the desired one
InitStale ==
  /\ fortiOSGroups \in GroupLists
  /\ fortiOSAddresses = AddressesOf(fortiOSGroups)
  /\ \E inv \in Inventories :
       /\ fwAddresses \in [inv.addresses -> {"want", "stale"}]
       /\ fwGroups = inv.groups
  /\ fgAddresses = {}
  /\ fgGroups = <<>>
  /\ pc = "getAddresses"
  /\ i = 0
  /\ r = 0
  /\ calls = <<>>
  /\ pass = 1
  /\ prevOk = TRUE

InitStaleOnly == InitStale /\ IdleMerge /\ IdleWork /\ IdleLinkLocal /\ IdleExtract

SpecStale == InitStaleOnly /\ [][Next]_vars


InitMergeOnly ==
  IdleRecon /\ InitMerge /\ IdleWork /\ IdleLinkLocal /\ IdleExtract

NextMerge == MergeAB \/ MergeBA

SpecMerge == InitMergeOnly /\ [][NextMerge]_vars

InitWorkOnly ==
  IdleRecon /\ IdleMerge /\ InitWork /\ IdleLinkLocal /\ IdleExtract

NextWork ==
  \/ Work
  \/ GetNsxIntegrators
  \/ GetVMTags
  \/ GetGroupTags
  \/ Fortigate

SpecWork == InitWorkOnly /\ [][NextWork]_vars
\* the scheduler's calls of work() over a listing of one integrator
InitReentry ==
  /\ InitWork
  /\ Len(integrators) = 1

InitReentryOnly ==
  IdleRecon /\ IdleMerge /\ InitReentry /\ IdleLinkLocal /\ IdleExtract

SpecReentry == InitReentryOnly /\ [][NextWork]_vars


InitLinkLocalOnly ==
  IdleRecon /\ IdleMerge /\ IdleWork /\ InitLinkLocal /\ IdleExtract

NextLinkLocal == RemoveLinkLocal

SpecLinkLocal == InitLinkLocalOnly /\ [][NextLinkLocal]_vars

InitExtractOnly ==
  IdleRecon /\ IdleMerge /\ IdleWork /\ IdleLinkLocal /\ InitExtract

NextExtract == ExtractVMTags \/ ExtractGroupTags

SpecExtract == InitExtractOnly /\ [][NextExtract]_vars

InitRunsOnly ==
  IdleRecon /\ IdleMerge /\ IdleWork /\ IdleLinkLocal /\ InitRuns

NextRuns == ExtractVMTags \/ NextRun

SpecRuns == InitRunsOnly /\ [][NextRuns]_vars


-----------------------------------------------------------------------------
(* Properties of a reconciliation pass *)

Last(s) == s[Len(s)]

CallsOf(op) == {k \in 1..Len(calls) : calls[k].op = op}

CallsFor(op, name) == {k \in CallsOf(op) : calls[k].name = name}

Mutations == {"addAddress", "addAddressGroup", "updateAddressGroup", "deleteAddress"}

DesiredAddressNames == {fortiOSAddresses[k].name : k \in 1..Len(fortiOSAddresses)}

DesiredGroupNames == {fortiOSGroups[k].name : k \in 1..Len(fortiOSGroups)}

\* the group loop has dealt with group k
GroupDone(k) ==
  \/ pc = "done"
  \/ pc = "updateGroups" /\ i > k
  \/ pc = "deleteAddresses" /\ i > k

\* C1 Safe delete: a delete call is issued only in the delete loop of a group and
\* only for an address that no other group now on the firewall references; an
\* address that another group references gets no delete call and stays on the
\* firewall.
SafeDelete ==
  [][Len(calls') = Len(calls) + 1 =>
       LET address == Last(calls').name
           referenced ==
             \E g \in DOMAIN fwGroups \ {fortiOSGroups[i].name} :
               address \in Range(fwGroups[g])
       IN  /\ Last(calls').op = "deleteAddress" =>
                pc = "deleteAddresses" /\ ~referenced
           /\ pc = "deleteAddresses" /\ referenced =>
                /\ Last(calls').op = "skipDeletion"
                /\ address \in DOMAIN fwAddresses => address \in DOMAIN fwAddresses'
     ]_vars

\* a pass that skipped the deletion of an address another group still holds, and
\* deleted an unreferenced one
WitnessSafeDelete ==
  /\ pc = "done"
  /\ \E u \in CallsOf("updateAddressGroup"), s \in CallsOf("skipDeletion") :
       /\ calls[u].ok
       /\ u < s
       /\ calls[s].name \in Range(calls[u].removed)
       /\ calls[s].name \in DOMAIN fwAddresses
       /\ \E g \in DOMAIN fwGroups \ {calls[u].name} :
            calls[s].name \in Range(fwGroups[g])
  /\ \E d \in CallsOf("deleteAddress") : calls[d].ok

\* C2 Idempotence (as claimed): a second pass over the same desired state, after
\* a first pass all of whose calls succeeded, issues no create, update or delete.
Idempotent ==
  pass > 1 /\ prevOk => \A k \in 1..Len(calls) : calls[k].op \notin Mutations

\* C3 Membership update: for a desired group that is in the snapshot, added and
\* removed are the two set differences of the member names; there is an update
\* call, one, exactly when one of them is non-empty; the call carries the full
\* desired member list and its change record lists exactly added and removed.
MembershipUpdate ==
  \A k \in 1..Len(fortiOSGroups) :
    LET group == fortiOSGroups[k]
        updates == CallsFor("updateAddressGroup", group.name)
    IN  IF group.name \notin DOMAIN fgGroups THEN updates = {}
        ELSE LET want == Range(group.member)
                 have == Range(fgGroups[group.name])
             IN  /\ Cardinality(updates) <= 1
                 /\ \A u \in updates :
                      /\ calls[u].member = group.member
                      /\ Range(calls[u].added) = want \ have
                      /\ Len(calls[u].added) = Cardinality(want \ have)
                      /\ Range(calls[u].removed) = have \ want
                      /\ Len(calls[u].removed) = Cardinality(have \ want)
                 /\ updates # {} => want # have
                 /\ GroupDone(k) /\ want # have => updates # {}

\* a pass that updated a group which both gained and lost a member, and left an
\* unchanged group alone
WitnessMembershipUpdate ==
  /\ pc = "done"
  /\ \E u \in CallsOf("updateAddressGroup") :
       Len(calls[u].added) > 0 /\ Len(calls[u].removed) > 0
  /\ \E k \in 1..Len(fortiOSGroups) :
       /\ fortiOSGroups[k].name \in DOMAIN fgGroups
       /\ Len(fortiOSGroups[k].member) > 0
       /\ CallsFor("updateAddressGroup", fortiOSGroups[k].name) = {}

\* C4 Creation set: an address (a group) gets a create call exactly when it is
\* desired and its name is not in the snapshot, once; a created group is sent
\* with its full desired member list.
CreationSet ==
  /\ \A c \in CallsOf("addAddress") :
       /\ calls[c].name \in DesiredAddressNames \ fgAddresses
       /\ CallsFor("addAddress", calls[c].name) = {c}
  /\ pc \in {"createGroups", "updateGroups", "deleteAddresses", "done"} =>
       {calls[c].name : c \in CallsOf("addAddress")} =
         DesiredAddressNames \ fgAddresses
  /\ \A c \in CallsOf("addAddressGroup") :
       /\ calls[c].name \notin DOMAIN fgGroups
       /\ CallsFor("addAddressGroup", calls[c].name) = {c}
       /\ \E k \in 1..Len(fortiOSGroups) :
            /\ fortiOSGroups[k].name = calls[c].name
            /\ fortiOSGroups[k].member = calls[c].member
  /\ pc \in {"updateGroups", "deleteAddresses", "done"} =>
       {calls[c].name : c \in CallsOf("addAddressGroup")} =
         DesiredGroupNames \ DOMAIN fgGroups

\* a pass that created an address and a group with members, and created nothing
\* for a desired address the snapshot already held
WitnessCreationSet ==
  /\ pc = "done"
  /\ CallsOf("addAddress") # {}
  /\ \E c \in CallsOf("addAddressGroup") : Len(calls[c].member) > 0
  /\ DesiredAddressNames \cap fgAddresses # {}

\* C5 Failure independence: only the inventory fetch ends a pass by throwing; a
\* pass that is not over can always take its next step; and a pass that is over
\* has attempted every create and update of its plan and has, for every removed
\* member of every changed group, either attempted its deletion or skipped it as
\* in use, whichever calls failed.
FailureIndependence ==
  /\ pc = "thrown" => calls = <<>>
  /\ pc \in {"getAddresses", "getAddressGroups", "createAddresses",
             "createGroups", "updateGroups", "deleteAddresses"} => ENABLED Pass
  /\ pc = "done" =>
       /\ \A n \in DesiredAddressNames \ fgAddresses : CallsFor("addAddress", n) # {}
       /\ \A n \in DesiredGroupNames \ DOMAIN fgGroups :
            CallsFor("addAddressGroup", n) # {}
       /\ \A k \in 1..Len(fortiOSGroups) :
            LET group == fortiOSGroups[k] IN
            group.name \in DOMAIN fgGroups
              /\ Range(group.member) # Range(fgGroups[group.name]) =>
            \E u \in CallsFor("updateAddressGroup", group.name) :
              \A m \in Range(fgGroups[group.name]) \ Range(group.member) :
                \E d \in CallsFor("deleteAddress", m) \cup CallsFor("skipDeletion", m) :
                  d > u

\* a pass that went on to another call after two of its calls had failed
WitnessFailureIndependence ==
  /\ pc = "done"
  /\ \E a, b, c \in 1..Len(calls) :
       /\ a < b /\ b < c
       /\ ~calls[a].ok /\ ~calls[b].ok
       /\ calls[a].op # calls[b].op
       /\ calls[c].op \in Mutations

Step(op) ==
  CASE op = "addAddress" -> 1
    [] op = "addAddressGroup" -> 2
    [] op = "updateAddressGroup" -> 3
    [] op = "deleteAddress" -> 4

\* C6 Step order (as claimed): the calls of a pass come in the order of the four
\* steps: create addresses, create groups, update groups, delete addresses.
StepOrder ==
  \A a, b \in 1..Len(calls) :
    a < b /\ calls[a].op \in Mutations /\ calls[b].op \in Mutations =>
      Step(calls[a].op) <= Step(calls[b].op)

-----------------------------------------------------------------------------
(* Properties of work() *)

\* C7 Aggregate before diffing (as claimed): a firewall target of an integrator
\* is processed only when all of the integrator's managers have been merged.
AggregateBeforeDiffing ==
  wpc = "fortigate" => mi = Len(integrators[ii].managers)

\* C8 First writer wins (as claimed): while one integrator is processed, a record
\* stored under an address name stays as it is; later fragments only add names.
FirstWriterWins ==
  [][ii' = ii =>
       \A n \in DOMAIN fortiOSIPv4Addresses :
         /\ n \in DOMAIN fortiOSIPv4Addresses'
         /\ fortiOSIPv4Addresses'[n] = fortiOSIPv4Addresses[n]]_vars

-----------------------------------------------------------------------------
(* Properties of mergeGroupObjects *)

\* C9 Group-merge commutativity: A then B, and B then A, folded into an empty
\* aggregate give the same group names and, per group, the same set of member
\* names.
GroupMergeCommutes ==
  mpc = "done" =>
    /\ DOMAIN mergedAB = DOMAIN mergedBA
    /\ \A g \in DOMAIN mergedAB :
         Range(mergedAB[g].member) = Range(mergedBA[g].member)

\* two fragments that share a group with different members, merged in both orders
WitnessGroupMergeCommutes ==
  /\ mpc = "done"
  /\ \E g \in DOMAIN fragA \cap DOMAIN fragB :
       /\ Range(fragA[g].member) \ Range(fragB[g].member) # {}
       /\ Range(fragB[g].member) \ Range(fragA[g].member) # {}
       /\ mergedAB[g].member # mergedBA[g].member

\* C10 Group merge is additive: with A as the target and B as the incoming
\* fragment, a group of both has as members the union of the two member-name
\* sets, each name once, and B's non-membership fields; a group of A alone is
\* unchanged.
GroupMergeAdditive ==
  mpc \in {"AB", "done"} =>
    /\ DOMAIN mergedAB = DOMAIN fragA \cup DOMAIN fragB
    /\ \A g \in DOMAIN fragA \cap DOMAIN fragB :
         /\ Range(mergedAB[g].member) =
              Range(fragA[g].member) \cup Range(fragB[g].member)
         /\ Len(mergedAB[g].member) = Cardinality(Range(mergedAB[g].member))
         /\ mergedAB[g].name = fragB[g].name
         /\ mergedAB[g].comment = fragB[g].comment
         /\ mergedAB[g].color = fragB[g].color
    /\ \A g \in DOMAIN fragA \ DOMAIN fragB : mergedAB[g] = fragA[g]

\* a merge where a shared group's target list repeats a name and the comments
\* differ, beside a group of the target alone
WitnessGroupMergeAdditive ==
  /\ mpc = "AB"
  /\ \E g \in DOMAIN fragA \cap DOMAIN fragB :
       /\ Len(fragA[g].member) > Cardinality(Range(fragA[g].member))
       /\ Range(fragB[g].member) \ Range(fragA[g].member) # {}
       /\ fragA[g].comment # fragB[g].comment
  /\ \E g \in DOMAIN fragA \ DOMAIN fragB : Len(fragA[g].member) > 0

-----------------------------------------------------------------------------
(* Properties of the extractor *)

\* the extractor call of this state returned a fragment
ExtractorReturned == exResult.call # "none" /\ ~exResult.thrown

\* the group literals the loop over groupIpAddresses builds a name for
ProcessedIps(manager, group) ==
  LET members == IF manager.type = "global" THEN GlobalMembers(group)
                 ELSE LocalMembers(group)
      ips == members.groupIpAddresses
  IN  {normalizedIp(ips[k]) : k \in 1..Len(ips)} \ Range(members.groupVifAddresses)

\* C11 Identifier length bound (as claimed): every address name of a fragment the
\* extractor returns, v4 and v6, from the VM path and from the group path, is at
\* most 79 characters long.
IdentifierLengthBound ==
  ExtractorReturned =>
    \A n \in DOMAIN exResult.fragment.fortiOSIPv4Addresses
             \cup DOMAIN exResult.fragment.fortiOSIPv6Addresses :
      Len(n) <= 79

\* C12 Hashing scenario (as claimed): for a group member whose canonical name is
\* longer than 79 characters the fragment holds the member's record under another
\* name of at most 79 characters, with the comment that marks it as hashed; a
\* member whose canonical name fits is stored under it without that comment.
HashingScenario ==
  ExtractorReturned /\ exResult.call = "group" =>
    \A g \in 1..Len(exInput.groups) :
      \A ip \in ProcessedIps(exManager, exInput.groups[g]) :
        LET display_name == exInput.groups[g].display_name
            v4 == ~includes(ip, ":")
            canonical ==
              IF v4 THEN canonicalIPv4AddressName(exManager, display_name, ip)
              ELSE canonicalIPv6AddressName(exManager, display_name, ip)
            stored ==
              IF v4 THEN exResult.fragment.fortiOSIPv4Addresses
              ELSE exResult.fragment.fortiOSIPv6Addresses
            built(n, isHashed) ==
              IF v4 THEN createIPv4Address(ip, n, isHashed)
              ELSE createIPv6Address(ip, n, isHashed)
        IN  built(canonical, FALSE) # null =>
              IF Len(canonical) > 79
                THEN \E n \in DOMAIN stored :
                       /\ n # canonical
                       /\ Len(n) <= 79
                       /\ stored[n] = built(n, TRUE)
                ELSE /\ canonical \in DOMAIN stored
                     /\ stored[canonical] = built(canonical, FALSE)

\* the names stored by the VM call of this state
CurrentNames ==
  IF ExtractorReturned /\ exResult.call = "vm"
    THEN StoredNames(exInput, exResult.fragment)
    ELSE {}

\* C13 Name stability (as claimed): a literal of an owner is stored under the
\* same name in every run, whatever other addresses the owner holds in the run.
NameStability ==
  \A a \in exNames, b \in exNames \cup CurrentNames :
    a.owner = b.owner /\ a.literal = b.literal => a.name = b.name

\* C14 Referential integrity (as claimed): in a fragment the extractor returns,
\* every member name of a v4 (v6) group is a key of the v4 (v6) address map.
ReferentialIntegrity ==
  ExtractorReturned =>
    /\ \A g \in DOMAIN exResult.fragment.fortiOSIPv4Groups :
         Range(exResult.fragment.fortiOSIPv4Groups[g].member)
           \subseteq DOMAIN exResult.fragment.fortiOSIPv4Addresses
    /\ \A g \in DOMAIN exResult.fragment.fortiOSIPv6Groups :
         Range(exResult.fragment.fortiOSIPv6Groups[g].member)
           \subseteq DOMAIN exResult.fragment.fortiOSIPv6Addresses

-----------------------------------------------------------------------------
(* Properties of removeLinkLocalAddresses *)

\* the literals of the model by what they are
PlainHosts == {"10.0.0.5", "169.254.1.1", "2001:db8::1", "fe80::1"}

HyphenatedRanges == {"10.0.0.1-10.0.0.9", "169.254.1.1-169.254.1.9"}

LinkLocalHosts == {"169.254.1.1", "fe80::1"}

LinkLocalCidrs == {"169.254.0.0/16"}

\* C15 Link-local exclusion: for a list of plain hosts and hyphenated ranges the
\* call returns, and returns exactly the elements that are not link-local hosts,
\* in input order; every range is kept.
LinkLocalExclusion ==
  lpc \in {"returned", "thrown"}
    /\ Range(addresses) \subseteq PlainHosts \cup HyphenatedRanges =>
      /\ ~filtered.thrown
      /\ filtered.value =
           SelectSeq(addresses, LAMBDA a : a \notin LinkLocalHosts)

\* the list of the spec's example, and a list with a range of link-local
\* addresses, filtered
WitnessLinkLocalExclusion ==
  /\ lpc = "returned"
  /\ \/ /\ addresses = <<"169.254.1.1", "10.0.0.5", "10.0.0.1-10.0.0.9">>
        /\ filtered.value = <<"10.0.0.5", "10.0.0.1-10.0.0.9">>
     \/ /\ addresses = <<"169.254.1.1-169.254.1.9", "fe80::1", "10.0.0.5">>
        /\ filtered.value = <<"169.254.1.1-169.254.1.9", "10.0.0.5">>

\* C16 Link-local with CIDR suffix (as claimed): the call returns whatever the
\* list holds, and a CIDR literal with a link-local address part is dropped like
\* a link-local host while the other elements are returned.
LinkLocalCidrDropped ==
  lpc \in {"returned", "thrown"} =>
    /\ ~filtered.thrown
    /\ filtered.value =
         SelectSeq(addresses,
                   LAMBDA a : a \notin LinkLocalHosts \cup LinkLocalCidrs)

\* C17 No link-local address is synced (as claimed): no fragment the extractor
\* returns holds an address record built from a link-local host.
NoLinkLocalSynced ==
  ExtractorReturned =>
    /\ \A n \in DOMAIN exResult.fragment.fortiOSIPv4Addresses :
         LET record == exResult.fragment.fortiOSIPv4Addresses[n] IN
         "subnet" \in DOMAIN record =>
           \A l \in LinkLocalHosts : record.subnet # l \o " 255.255.255.255"
    /\ \A n \in DOMAIN exResult.fragment.fortiOSIPv6Addresses :
         LET record == exResult.fragment.fortiOSIPv6Addresses[n] IN
         "ip6" \in DOMAIN record =>
           \A l \in LinkLocalHosts : record.ip6 # l \o "/128"

\* a sub-query whose rejection the extractor catches failed in the call of this
\* state, and no other query did
CaughtFailureOnly ==
  /\ exResult.call # "none"
  /\ \/ ~exInput.search
     \/ \E g \in 1..Len(exInput.groups) :
          ~exInput.groups[g].ips \/ ~exInput.groups[g].vifs
  /\ \A v \in 1..Len(exInput.vms) : exInput.vms[v].vifs
  /\ \A g \in 1..Len(exInput.groups) : exInput.groups[g].sites

\* C18 Failed sub-query is not fatal (as claimed): a call in which the search,
\* a group's IP-member query or a group's virtual-interface query failed does
\* not throw; it returns a fragment.
SubQueryNotFatal ==
  CaughtFailureOnly => ~exResult.thrown

-----------------------------------------------------------------------------
(* Properties of a run of work() *)

\* C20 Run abort policy (as claimed): a run is aborted only by the failure to
\* list the integrators, before any integrator is processed; once an integrator
\* is being processed nothing stops the run.
RunAbortPolicy ==
  wpc = "thrown" => ii = 0

-----------------------------------------------------------------------------
(* Properties of the group path *)

\* the name the group path builds for a literal
GroupMemberName(manager, display_name, ip) ==
  IF includes(ip, ":") THEN groupIPv6AddressName(manager, display_name, ip)
  ELSE groupIPv4AddressName(manager, display_name, ip)

\* the member names of both groups of the fragment
FragmentMembers ==
  UNION {Range(exResult.fragment.fortiOSIPv4Groups[g].member) :
           g \in DOMAIN exResult.fragment.fortiOSIPv4Groups}
  \cup UNION {Range(exResult.fragment.fortiOSIPv6Groups[g].member) :
                g \in DOMAIN exResult.fragment.fortiOSIPv6Groups}

\* C21 Global-manager group members (as claimed): for a group of a global
\* manager the members are built from the literals of the match expression and
\* of the enforcement points together, link-local ones removed, each once; a
\* literal of the expression alone is a member.
GlobalManagerMembers ==
  ExtractorReturned /\ exResult.call = "group" /\ exManager.type = "global" =>
    \A g \in 1..Len(exInput.groups) :
      LET group == exInput.groups[g]
          wanted == (Range(group.expression) \cup Range(group.enforcementPoint))
                      \ (LinkLocalHosts \cup LinkLocalCidrs)
      IN  FragmentMembers =
            {GroupMemberName(exManager, group.display_name, normalizedIp(l)) :
               l \in wanted}

\* C22 Virtual-interface exclusion (as claimed): for a group of a local manager
\* a directly assigned IP that is, after stripping "/32", one of the group's
\* virtual-interface addresses gives no address record and no member; every
\* other directly assigned IP gives both.
VifExclusion ==
  ExtractorReturned /\ exResult.call = "group" /\ exManager.type = "local" =>
    \A g \in 1..Len(exInput.groups) :
      \A k \in 1..Len(exInput.groups[g].ip_members) :
        LET group == exInput.groups[g]
            ip == normalizedIp(group.ip_members[k])
            name == GroupMemberName(exManager, group.display_name, ip)
            hasRecord ==
              name \in DOMAIN exResult.fragment.fortiOSIPv4Addresses
                       \cup DOMAIN exResult.fragment.fortiOSIPv6Addresses
        IN  IF ip \in Range(group.vif_addresses)
              THEN ~hasRecord /\ name \notin FragmentMembers
              ELSE hasRecord /\ name \in FragmentMembers

NoDuplicates(list) == Cardinality(Range(list)) = Len(list)

\* C23 Member deduplication (as claimed): in every fragment, of the VM path and
\* of the group path, no member list names an address twice, also when two
\* tagged VMs have the same display name or an IP is reported twice.
MembersDeduplicated ==
  ExtractorReturned =>
    /\ \A g \in DOMAIN exResult.fragment.fortiOSIPv4Groups :
         NoDuplicates(exResult.fragment.fortiOSIPv4Groups[g].member)
    /\ \A g \in DOMAIN exResult.fragment.fortiOSIPv6Groups :
         NoDuplicates(exResult.fragment.fortiOSIPv6Groups[g].member)

-----------------------------------------------------------------------------
(* Properties of a pass: convergence, deletion, frame *)

\* C24 Convergence of address objects (as claimed): after a pass in which every
\* firewall call succeeded, every desired address exists on the firewall with
\* the desired payload, also when an address of that name existed before the
\* pass with another payload.
AddressesConverge ==
  pc = "done" /\ (\A k \in 1..Len(calls) : calls[k].ok) =>
    \A k \in 1..Len(fortiOSAddresses) :
      /\ fortiOSAddresses[k].name \in DOMAIN fwAddresses
      /\ fwAddresses[fortiOSAddresses[k].name] = fortiOSAddresses[k].subnet

\* C25 A wanted address is never deleted (as claimed): no delete call is issued
\* for an address that is a member of some desired group, whatever the order in
\* which the groups are processed.
WantedNeverDeleted ==
  \A k \in CallsOf("deleteAddress") :
    ~\E g \in 1..Len(fortiOSGroups) : calls[k].name \in Range(fortiOSGroups[g].member)

\* C28 No delete after a failed update: when the update call of a group is
\* rejected, no delete call of the pass names a member computed as removed from
\* that group; the delete loop still runs and skips each of them.
NoDeleteAfterFailedUpdate ==
  \A k \in CallsOf("updateAddressGroup") :
    ~calls[k].ok =>
      /\ \A d \in CallsOf("deleteAddress") :
           calls[d].name \notin Range(calls[k].removed)
      /\ Range(calls[k].removed) \subseteq DOMAIN fwAddresses

\* a rejected update with a removed member, whose delete loop has run
WitnessNoDeleteAfterFailedUpdate ==
  /\ pc = "done"
  /\ \E k \in CallsOf("updateAddressGroup") :
       /\ ~calls[k].ok
       /\ calls[k].removed # <<>>
       /\ \A n \in Range(calls[k].removed) :
            \E s \in CallsOf("skipDeletion") : s > k /\ calls[s].name = n

\* the address was a member of an existing desired-named group in the snapshot
\* and is not in that group's desired member list
RemovedFromSomeGroup(n) ==
  \E k \in 1..Len(fortiOSGroups) :
    /\ fortiOSGroups[k].name \in DOMAIN fgGroups
    /\ n \in Range(fgGroups[fortiOSGroups[k].name])
    /\ n \notin Range(fortiOSGroups[k].member)

\* C29 Frame of a pass: a step of a pass never creates, updates or deletes a
\* firewall group whose name is not desired and never deletes a group; it
\* deletes only an address that was, in the snapshot, a member of an existing
\* desired-named group and is not in that group's desired members; it adds only
\* desired addresses; every other address and group stays as it was, and the
\* desired state is not modified.
FrameOfPass ==
  [][/\ fortiOSAddresses' = fortiOSAddresses
     /\ fortiOSGroups' = fortiOSGroups
     /\ DOMAIN fwGroups \subseteq DOMAIN fwGroups'
     /\ \A g \in DOMAIN fwGroups' \ DesiredGroupNames :
          g \in DOMAIN fwGroups /\ fwGroups'[g] = fwGroups[g]
     /\ \A n \in DOMAIN fwAddresses \ DOMAIN fwAddresses' : RemovedFromSomeGroup(n)
     /\ \A n \in DOMAIN fwAddresses \cap DOMAIN fwAddresses' :
          fwAddresses'[n] = fwAddresses[n]
     /\ DOMAIN fwAddresses' \ DOMAIN fwAddresses \subseteq DesiredAddressNames
     /\ \A k \in 1..Len(calls') :
          /\ calls'[k].op \in Mutations \cup {"skipDeletion"}
          /\ calls'[k].op \in {"addAddressGroup", "updateAddressGroup"} =>
               calls'[k].name \in DesiredGroupNames
          /\ calls'[k].op = "deleteAddress" => RemovedFromSomeGroup(calls'[k].name)
    ]_vars

\* a finished pass that deleted an address and left a group and an address that
\* are not desired on the firewall
WitnessFrameOfPass ==
  /\ pc = "done"
  /\ \E d \in CallsOf("deleteAddress") :
       calls[d].ok /\ calls[d].name \notin DOMAIN fwAddresses
  /\ DOMAIN fwGroups \ DesiredGroupNames # {}
  /\ DOMAIN fwAddresses \ DesiredAddressNames # {}

\* C30 At most one mutation per group per pass: a desired group absent from the
\* snapshot gets one create call and no update call; a desired group present in
\* the snapshot gets no create call and at most one update call; the delete loop
\* only ever runs for a group of the snapshot, never for a group created in the
\* pass.
OneMutationPerGroup ==
  /\ \A k \in 1..Len(fortiOSGroups) :
       LET name == fortiOSGroups[k].name
           creates == CallsFor("addAddressGroup", name)
           updates == CallsFor("updateAddressGroup", name)
       IN  IF name \in DOMAIN fgGroups
             THEN creates = {} /\ Cardinality(updates) <= 1
             ELSE /\ Cardinality(creates) <= 1
                  /\ updates = {}
                  /\ pc = "done" => Cardinality(creates) = 1
  /\ pc = "deleteAddresses" =>
       /\ fortiOSGroups[i].name \in DOMAIN fgGroups
       /\ CallsFor("addAddressGroup", fortiOSGroups[i].name) = {}

\* a finished pass that created one group with a member and updated another
WitnessOneMutationPerGroup ==
  /\ pc = "done"
  /\ \E c \in CallsOf("addAddressGroup") : calls[c].ok /\ calls[c].member # <<>>
  /\ \E u \in CallsOf("updateAddressGroup") : calls[u].removed # <<>>
  /\ CallsOf("deleteAddress") # {}

-----------------------------------------------------------------------------
(* Properties of the running flag *)

\* C26 Re-entrancy guard: at most one invocation of work() is past the guard at
\* a time; an invocation that starts while another is past the guard returns 7,
\* takes no step of the run (no inventory, configuration or firewall call) and
\* leaves the running flag as it was.
ReentrancyGuard ==
  [][/\ Cardinality({k \in Invocations : invocations'[k] = "running"}) <= 1
     /\ \A k \in Invocations :
          invocations[k] = "ready" /\ invocations'[k] # "ready" =>
            IF PastGuard # {}
              THEN /\ invocations'[k] = "returned7"
                   /\ running' = running
                   /\ UNCHANGED <<integrators, fortiOSIPv4Addresses,
                                  fortiOSIPv4Groups, wpc, ii, mi, fi>>
              ELSE invocations'[k] = "running"
    ]_vars

\* an invocation was turned away while another was between two awaits of a
\* manager, and that one went on
WitnessReentrancyGuard ==
  /\ \E k \in Invocations : invocations[k] = "returned7"
  /\ PastGuard # {}
  /\ wpc = "fortigate"
  /\ running

\* C27 Running flag always released: when the invocation that set the flag
\* ends, by return 0 or by a throw at any await, the flag is false afterwards;
\* the flag is never true while no invocation is past the guard, so no later
\* call returns 7 because of a finished run.
RunningReleased ==
  [][/\ \A k \in Invocations :
          invocations[k] = "running"
            /\ invocations'[k] \in {"returned0", "thrown"} => ~running'
     /\ running' => \E k \in Invocations : invocations'[k] = "running"
     /\ \A k \in Invocations :
          invocations[k] = "ready" /\ invocations'[k] = "returned7" =>
            PastGuard # {}
    ]_vars

\* a run ended by a throw, a later call was admitted and returned 0
WitnessRunningReleased ==
  /\ \E k \in Invocations : invocations[k] = "thrown"
  /\ \E k \in Invocations : invocations[k] = "returned0"
  /\ ~running

=============================================================================
